---- MODULE Spec2Model ----
(***************************************************************************)
(* A model of the shell package of Anti-Raid/shellcli:                     *)
(*   src/shell/shellcli.go        the registry, the executor, the          *)
(*                                completion handler and the Run loop      *)
(*   src/shell/signalhandling.go  the signal listener and its hook lists   *)
(*                                                                         *)
(* A Go string is a sequence of one-character strings, so that the         *)
(* tokenizer, strings.ToLower, strings.HasPrefix, strings.TrimSpace and    *)
(* strings.Split are computed character by character.                      *)
(***************************************************************************)
EXTENDS Integers, Sequences, FiniteSets, TLC

\* ------------------------------------------------------------------------
\* Go strings
\* ------------------------------------------------------------------------

\* strings.ToLower on one character (ASCII letters of the model's alphabet)
LowerChar(c) ==
    CASE c = "P" -> "p"
      [] c = "I" -> "i"
      [] c = "N" -> "n"
      [] c = "G" -> "g"
      [] c = "E" -> "e"
      [] c = "X" -> "x"
      [] c = "T" -> "t"
      [] c = "Q" -> "q"
      [] c = "U" -> "u"
      [] c = "H" -> "h"
      [] c = "L" -> "l"
      [] c = "B" -> "b"
      [] c = "A" -> "a"
      [] c = "D" -> "d"
      [] c = "Y" -> "y"
      [] OTHER -> c

\* strings.ToLower
ToLower(s) == [i \in 1..Len(s) |-> LowerChar(s[i])]

\* strings.HasPrefix(s, prefix)
HasPrefix(s, prefix) ==
    /\ Len(prefix) <= Len(s)
    /\ \A i \in 1..Len(prefix) : s[i] = prefix[i]

\* the white space strings.TrimSpace and the splitter's TrimSpaces remove
IsSpace(c) == c \in {" ", "\t", "\n", "\r"}

RECURSIVE TrimLeft(_)
TrimLeft(s) ==
    IF s # <<>> /\ IsSpace(Head(s)) THEN TrimLeft(Tail(s)) ELSE s

RECURSIVE TrimRight(_)
TrimRight(s) ==
    IF s # <<>> /\ IsSpace(s[Len(s)])
    THEN TrimRight(SubSeq(s, 1, Len(s) - 1))
    ELSE s

\* strings.TrimSpace
TrimSpace(s) == TrimRight(TrimLeft(s))

\* strings.Contains(s, c) for a one-character c
ContainsChar(s, c) == \E i \in 1..Len(s) : s[i] = c

\* strings.ReplaceAll(s, c, "") for a one-character c
RemoveChar(s, c) == SelectSeq(s, LAMBDA d : d # c)

\* strings.Split(s, sep) for a one-character sep: always at least one piece,
\* empty pieces kept
RECURSIVE StringsSplitFrom(_, _, _, _)
StringsSplitFrom(s, sep, cur, acc) ==
    IF s = <<>> THEN Append(acc, cur)
    ELSE IF Head(s) = sep
         THEN StringsSplitFrom(Tail(s), sep, <<>>, Append(acc, cur))
         ELSE StringsSplitFrom(Tail(s), sep, Append(cur, Head(s)), acc)

StringsSplit(s, sep) == StringsSplitFrom(s, sep, <<>>, <<>>)

\* ------------------------------------------------------------------------
\* The two splitters Init builds (github.com/go-andiamo/splitter): a
\* separator, the enclosures ( ) [ ] { } and the backslash-escaped double
\* and single quotes, options IgnoreEmptyFirst, IgnoreEmptyLast, TrimSpaces
\* (and UnescapeQuotes for the argument splitter).
\* ------------------------------------------------------------------------

Openers == {"(", "[", "{"}
ClosersOf == [c \in Openers |-> CASE c = "(" -> ")" [] c = "[" -> "]" [] OTHER -> "}"]
Closers == {ClosersOf[c] : c \in Openers}
QuoteChars == {"\"", "'"}
Backslash == "\\"

Top(stack) == stack[Len(stack)]
Pop(stack) == SubSeq(stack, 1, Len(stack) - 1)

\* The scan of the splitter: parts are cut at a separator outside every
\* enclosure; an unclosed enclosure or an unopened closer is an error.
\* A part is kept with its enclosure characters.
RECURSIVE SplitScan(_, _, _, _, _, _)
SplitScan(s, i, sep, stack, cur, parts) ==
    IF i > Len(s)
    THEN IF stack # <<>>
         THEN [err |-> TRUE, parts |-> <<>>]
         ELSE [err |-> FALSE, parts |-> Append(parts, cur)]
    ELSE
      LET c == s[i]
          inQuote == stack # <<>> /\ Top(stack) \in QuoteChars
      IN
      IF c = sep /\ stack = <<>>
      THEN SplitScan(s, i + 1, sep, stack, <<>>, Append(parts, cur))
      ELSE IF c = sep
      THEN SplitScan(s, i + 1, sep, stack, Append(cur, c), parts)
      ELSE IF inQuote /\ c = Backslash /\ i < Len(s)
      THEN SplitScan(s, i + 2, sep, stack, cur \o <<c, s[i + 1]>>, parts)
      ELSE IF inQuote /\ c = Top(stack)
      THEN SplitScan(s, i + 1, sep, Pop(stack), Append(cur, c), parts)
      ELSE IF inQuote
      THEN SplitScan(s, i + 1, sep, stack, Append(cur, c), parts)
      ELSE IF stack # <<>> /\ c = ClosersOf[Top(stack)]
      THEN SplitScan(s, i + 1, sep, Pop(stack), Append(cur, c), parts)
      ELSE IF c \in Openers \cup QuoteChars
      THEN SplitScan(s, i + 1, sep, Append(stack, c), Append(cur, c), parts)
      ELSE IF c \in Closers
      THEN [err |-> TRUE, parts |-> <<>>]
      ELSE SplitScan(s, i + 1, sep, stack, Append(cur, c), parts)

\* IgnoreEmptyFirst and IgnoreEmptyLast drop an empty first and an empty
\* last part; every other part is kept, empty or not
DropEmptyEnds(parts) ==
    LET n == Len(parts)
        keep == {k \in 1..n : ~(parts[k] = <<>> /\ (k = 1 \/ k = n))}
        RECURSIVE Gather(_)
        Gather(k) ==
            IF k > n THEN <<>>
            ELSE IF k \in keep THEN <<parts[k]>> \o Gather(k + 1)
            ELSE Gather(k + 1)
    IN Gather(1)

\* UnescapeQuotes: a quoted span loses its quotes, an escaped character
\* inside it loses its backslash
RECURSIVE Unquote(_, _, _)
Unquote(s, i, q) ==
    IF i > Len(s) THEN <<>>
    ELSE LET c == s[i] IN
         IF q = "" /\ c \in QuoteChars THEN Unquote(s, i + 1, c)
         ELSE IF q # "" /\ c = Backslash /\ i < Len(s)
         THEN <<s[i + 1]>> \o Unquote(s, i + 2, q)
         ELSE IF q # "" /\ c = q THEN Unquote(s, i + 1, "")
         ELSE <<c>> \o Unquote(s, i + 1, q)

\* a.Splitter.Split: the tokenizer, separator ' '
SplitterSplit(s) ==
    LET Trimmed(kept) == [k \in 1..Len(kept) |-> TrimSpace(kept[k])]
        Options(r) ==
            IF r.err THEN r
            ELSE [err |-> FALSE, parts |-> Trimmed(DropEmptyEnds(r.parts))]
    IN Options(SplitScan(s, 1, " ", <<>>, <<>>, <<>>))

\* a.ArgSplitter.Split: the key=value splitter, separator '='
ArgSplitterSplit(s) ==
    LET Unescaped(kept) ==
            [k \in 1..Len(kept) |-> Unquote(TrimSpace(kept[k]), 1, "")]
        Options(r) ==
            IF r.err THEN r
            ELSE [err |-> FALSE, parts |-> Unescaped(DropEmptyEnds(r.parts))]
    IN Options(SplitScan(s, 1, "=", <<>>, <<>>, <<>>))

\* ------------------------------------------------------------------------
\* Words of the model's inputs
\* ------------------------------------------------------------------------

ping == <<"p", "i", "n", "g">>
Ping == <<"P", "i", "n", "g">>
PING == <<"P", "I", "N", "G">>
exit == <<"e", "x", "i", "t">>
EXIT == <<"E", "X", "I", "T">>
quit == <<"q", "u", "i", "t">>
bad == <<"b", "a", "d">>
sp == <<" ">>
semi == <<";">>
eq == <<"=">>
argX == <<"x">>
argY == <<"y">>

\* ------------------------------------------------------------------------
\* Errors and commands
\* ------------------------------------------------------------------------

\* a Go error: its kind and the text it names; Nil is the nil error
Nil == [kind |-> "nil", arg |-> <<>>]
Errorf(kind, arg) == [kind |-> kind, arg |-> arg]

\* Command: the name, the declared argument names in order (Args[i][0]),
\* and whether Completer is non-nil. Run and Completer are the
\* application's code: what they return is chosen by the caller of the
\* operators below.
MkCommand(name, args, completer) ==
    [Name |-> name, Args |-> args, Completer |-> completer]

\* the error a run handler or a completer may return
HandlerError == Errorf("handler", <<>>)

\* the empty map
EmptyMap == [k \in {} |-> <<>>]

\* m[k] = v of a Go map: addition or overwrite
MapSet(m, k, v) == [j \in DOMAIN m \cup {k} |-> IF j = k THEN v ELSE m[j]]

\* ------------------------------------------------------------------------
\* State
\* ------------------------------------------------------------------------

VARIABLES
    Commands,          \* ShellCli.Commands: name -> Command (empty when nil)
    CaseInsensitive,   \* ShellCli.CaseInsensitive
    DebugCompletions,  \* ShellCli.DebugCompletions
    lineAttached,      \* ShellCli.line # nil (set by Run)
    history,           \* the liner's history: the lines AppendHistory got
    stdout,            \* what fmt.Print* wrote, in order
    runLog,            \* the Run handlers invoked, in order, with their maps
    pc,                \* where the embedding program is (see Next)
    segs,              \* ExecuteCommands: the segments not yet looked at
    call,              \* ExecuteCommands: its argument, runLog's length at entry
    segLog,            \* ExecuteCommands: RunString's calls of this call
    ret,               \* the last return of ExecuteCommands
    linesRead,         \* how many lines the line source has delivered
    probe,             \* the last call of a side-effect-free method
    signalChan,        \* the buffered channel signal.Notify sends to
    interruptHooks,    \* signalhandling.go: interruptHooks
    reloadHooks,       \* signalhandling.go: reloadHooks
    interruptHookLock, \* the RWMutex: readers and writer holding it
    reloadHookLock,
    listener,          \* the listener goroutine: position, signal, index
    registrar,         \* a goroutine inside OnInterrupt or OnReload
    delivered,         \* how many signals the system has sent
    hooksRun,          \* the hooks the listener has called, in order
    exited             \* os.Exit was called

shellVars == <<Commands, CaseInsensitive, DebugCompletions, lineAttached,
               history, stdout, runLog, pc, segs, call, segLog, ret, linesRead>>
signalVars == <<signalChan, interruptHooks, reloadHooks, interruptHookLock,
                reloadHookLock, listener, registrar, delivered, hooksRun,
                exited>>
vars == <<shellVars, probe, signalVars>>

\* ------------------------------------------------------------------------
\* Registry lookup and the argument mapper
\* ------------------------------------------------------------------------

\* the name ParseOutCommand looks up: folded only when CaseInsensitive
LookupKey(name) == IF CaseInsensitive THEN ToLower(name) ELSE name

\* ParseOutCommand: (nil, nil) for no tokens, the command registered under
\* the looked-up name, or "unknown command: <first token as typed>"
ParseOutCommand(cmd) ==
    IF Len(cmd) = 0
    THEN [found |-> FALSE, key |-> <<>>, err |-> Nil]
    ELSE LET Lookup(cmdName) ==
                 IF cmdName \in DOMAIN Commands
                 THEN [found |-> TRUE, key |-> cmdName, err |-> Nil]
                 ELSE [found |-> FALSE, key |-> <<>>,
                       err |-> Errorf("unknown command", cmd[1])]
         IN Lookup(LookupKey(cmd[1]))

\* the number of bare tokens among args[1..i]
RECURSIVE BareCount(_, _)
BareCount(args, i) ==
    IF i = 0 THEN 0
    ELSE BareCount(args, i - 1) +
         (IF ContainsChar(args[i], "=") THEN 0 ELSE 1)

\* an assignment of the k-th bare token to the k-th declared argument
PositionalIndexAmongBare(args, i) == BareCount(args, i)

\* the declared argument a bare token at index i of args (from 1) is
\* assigned to: cmdData.Args[i][0]
PositionalIndex(args, i) == i

\* CreateArgMapFromArgs, the loop from token i on: argMap so far, and the
\* fields printed as "WARNING: extra argument"
RECURSIVE ArgMapLoop(_, _, _, _, _)
ArgMapLoop(cmdData, args, i, argMap, warned) ==
    IF i > Len(args)
    THEN [err |-> Nil, argMap |-> argMap, warned |-> warned]
    ELSE
      LET Body(f, pos) ==
            IF f.err
            THEN [err |-> Errorf("error splitting argument", args[i]),
                  argMap |-> EmptyMap, warned |-> warned]
            ELSE IF Len(f.parts) = 1
            THEN IF Len(cmdData.Args) < pos
                 THEN ArgMapLoop(cmdData, args, i + 1, argMap,
                                 Append(warned, f.parts[1]))
                 ELSE ArgMapLoop(cmdData, args, i + 1,
                                 MapSet(argMap, cmdData.Args[pos], f.parts[1]),
                                 warned)
            ELSE IF Len(f.parts) # 2
            THEN [err |-> Errorf("invalid argument", args[i]),
                  argMap |-> EmptyMap, warned |-> warned]
            ELSE ArgMapLoop(cmdData, args, i + 1,
                            MapSet(argMap, f.parts[1], f.parts[2]), warned)
      IN Body(ArgSplitterSplit(args[i]), PositionalIndex(args, i))

CreateArgMapFromArgs(cmdData, args) ==
    ArgMapLoop(cmdData, args, 1, EmptyMap, <<>>)

\* a line of stdout
Printed(what, arg) == [what |-> what, arg |-> arg]

Warnings(warned) == [k \in 1..Len(warned) |-> Printed("WARNING: extra argument", warned[k])]

\* ------------------------------------------------------------------------
\* The executor
\* ------------------------------------------------------------------------

\* Exec: resolve, build the map, call the run handler, which returns herr.
\* ran: the handler invocations (none or one); out: what was printed
Exec(cmd, herr) ==
    LET Call(key, m) ==
            IF m.err # Nil
            THEN [err |-> m.err, ran |-> <<>>, out |-> Warnings(m.warned)]
            ELSE [err |-> herr,
                  ran |-> <<[cmd |-> key, args |-> m.argMap]>>,
                  out |-> Warnings(m.warned)]
        Resolved(p) ==
            IF p.err # Nil THEN [err |-> p.err, ran |-> <<>>, out |-> <<>>]
            ELSE IF ~p.found THEN [err |-> Nil, ran |-> <<>>, out |-> <<>>]
            ELSE Call(p.key, CreateArgMapFromArgs(Commands[p.key], Tail(cmd)))
    IN Resolved(ParseOutCommand(cmd))

\* an exit test that folds the letter case
IsExitTokenFolded(tok) == ToLower(tok) = exit \/ ToLower(tok) = quit

\* tokens[0] == "exit" || tokens[0] == "quit"
IsExitToken(tok) == tok = exit \/ tok = quit

\* a history append that records only the lines whose command resolves
AppendHistoryIfKnown(c, tokens) ==
    IF lineAttached /\ ParseOutCommand(tokens).found THEN <<c>> ELSE <<>>

\* if a.line != nil { a.line.AppendHistory(command) }, before Exec
AppendHistory(c, tokens) == IF lineAttached THEN <<c>> ELSE <<>>

\* RunString: (cancel, err), the lines appended to the history, the
\* handlers run and what was printed
RunString(command, herr) ==
    LET none == [cancel |-> FALSE, err |-> Nil, appended |-> <<>>,
                 ran |-> <<>>, out |-> <<>>]
        Executed(appended, e) ==
            [cancel |-> FALSE, err |-> e.err, appended |-> appended,
             ran |-> e.ran, out |-> e.out]
        Tokens(c, t) ==
            IF t.err
            THEN [none EXCEPT !.err = Errorf("error splitting command", c)]
            ELSE IF Len(t.parts) = 0 \/ t.parts[1] = <<>> THEN none
            ELSE IF IsExitToken(t.parts[1]) THEN [none EXCEPT !.cancel = TRUE]
            ELSE Executed(AppendHistory(c, t.parts), Exec(t.parts, herr))
        Trimmed(c) == Tokens(c, SplitterSplit(c))
    IN Trimmed(TrimSpace(command))

\* ------------------------------------------------------------------------
\* The completion handler
\* ------------------------------------------------------------------------

\* for name := range a.Commands { if strings.HasPrefix(name,
\* strings.ToLower(line)) ... }: order is the order the map is ranged in
PrefixListing(line, order) ==
    SelectSeq(order, LAMBDA name : HasPrefix(name, ToLower(line)))

\* an error path that returns the line and the error as suggestions
DegradedWithDiagnostics(line, what) ==
    <<line, <<"e", "r", "r", "o", "r">>, exit, quit>>

\* the error paths of CompletionHandler: a bare return, c is nil
Degraded(line, what) == <<>>

\* suggestions returned as the completer gave them
AsReturned(completions) == completions

\* c[i] = completion + " "
WithTrailingSpace(completions) ==
    [i \in 1..Len(completions) |-> completions[i] \o sp]

\* what CompletionHandler prints when DebugCompletions is set
Debug(what, arg) == IF DebugCompletions THEN <<Printed(what, arg)>> ELSE <<>>

\* a completion that also executes the command over the typed arguments
CompleterAndRun(key, line, argMap) ==
    [completers |-> <<[cmd |-> key, line |-> line, args |-> argMap]>>,
     runs |-> <<[cmd |-> key, args |-> argMap]>>]

\* cmdData.Completer(a, line, argMap): the application code CompletionHandler
\* calls for a resolved command; cmdData.Run is not called
CompleterOnly(key, line, argMap) ==
    [completers |-> <<[cmd |-> key, line |-> line, args |-> argMap]>>,
     runs |-> <<>>]

\* CompletionHandler(line). order: the order the registry is ranged in;
\* cres: what the command's completer returns if it is called.
\* c: the suggestions; out: what was printed; calls: the completer calls;
\* ran: the run handlers invoked
CompletionHandler(line, order, cres) ==
    LET Result(c, out, calls, ran) ==
            [c |-> c, out |-> out, calls |-> calls, ran |-> ran]
        None == Result(<<>>, <<>>, <<>>, <<>>)
        WithCompleter(m, u) ==
            IF cres.err # Nil
            THEN Result(Degraded(line, cres.err),
                        Warnings(m.warned) \o Debug("error running completer", <<>>),
                        u.completers, u.runs)
            ELSE Result(WithTrailingSpace(cres.list), Warnings(m.warned),
                        u.completers, u.runs)
        Completed(key, m) ==
            IF m.err # Nil
            THEN Result(Degraded(line, m.err),
                        Warnings(m.warned) \o Debug("error creating arg map", m.err.arg),
                        <<>>, <<>>)
            ELSE WithCompleter(m, CompleterOnly(key, line, m.argMap))
        Resolved(tokens, p) ==
            IF p.err # Nil
            THEN Result(PrefixListing(line, order),
                        Debug("error parsing command", p.err.arg), <<>>, <<>>)
            ELSE IF ~p.found THEN None
            ELSE IF Commands[p.key].Completer
            THEN Completed(p.key,
                           CreateArgMapFromArgs(Commands[p.key], Tail(tokens)))
            ELSE None
        Tokens(command, t) ==
            IF t.err
            THEN Result(Degraded(line, Errorf("error splitting command", command)),
                        Debug("error splitting command", command), <<>>, <<>>)
            ELSE IF Len(t.parts) = 0 \/ t.parts[1] = <<>> THEN None
            ELSE IF IsExitToken(t.parts[1]) THEN None
            ELSE Resolved(t.parts, ParseOutCommand(t.parts))
        Trimmed(command) == Tokens(command, SplitterSplit(command))
    IN
    IF Len(RemoveChar(line, " ")) = 0
    THEN Result(PrefixListing(line, order), <<>>, <<>>, <<>>)
    ELSE IF ContainsChar(line, ";") THEN None
    ELSE Trimmed(TrimSpace(line))

\* ------------------------------------------------------------------------
\* The argument-based completer and its two scanners
\* ------------------------------------------------------------------------

\* strings.HasSuffix
HasSuffix(s, suffix) ==
    /\ Len(suffix) <= Len(s)
    /\ SubSeq(s, Len(s) - Len(suffix) + 1, Len(s)) = suffix

\* s[i:i+len(sub)] == sub, i counted from 1
OccursAt(s, sub, i) ==
    /\ i >= 1
    /\ i + Len(sub) - 1 <= Len(s)
    /\ SubSeq(s, i, i + Len(sub) - 1) = sub

\* strings.Index and strings.LastIndex, counted from 1; 0 when absent
Index(s, sub) ==
    LET at == {i \in 1..(Len(s) + 1) : OccursAt(s, sub, i)}
    IN IF at = {} THEN 0 ELSE CHOOSE i \in at : \A j \in at : i <= j

LastIndex(s, sub) ==
    LET at == {i \in 1..(Len(s) + 1) : OccursAt(s, sub, i)}
    IN IF at = {} THEN 0 ELSE CHOOSE i \in at : \A j \in at : i >= j

\* s with the len(sub) characters at i cut out
CutAt(s, sub, i) ==
    IF i = 0 THEN s
    ELSE SubSeq(s, 1, i - 1) \o SubSeq(s, i + Len(sub), Len(s))

\* strings.Replace(s, old, "", 1): the first occurrence of old removed
RemoveFirst(s, old) == CutAt(s, old, Index(s, old))

\* strutils.ReplaceFromBack(s, old, "", 1): the last occurrence of old
\* removed
ReplaceFromBack(s, old) == CutAt(s, old, LastIndex(s, old))

\* char == '\'' || char == '"'
IsQuote(char) == char \in {"'", "\""}

\* The loop both scanners start with: split on the spaces met while
\* inQuotes is false; every quote character, of either kind, toggles
\* inQuotes and is kept in the argument.
RECURSIVE SplitArgsLoop(_, _, _, _, _)
SplitArgsLoop(args, i, inQuotes, currentArg, splitArgs) ==
    IF i > Len(args)
    THEN IF Len(currentArg) > 0 THEN Append(splitArgs, currentArg)
         ELSE splitArgs
    ELSE LET char == args[i]
             q == IF IsQuote(char) THEN ~inQuotes ELSE inQuotes
         IN IF char = " " /\ ~q
            THEN IF Len(currentArg) > 0
                 THEN SplitArgsLoop(args, i + 1, q, <<>>,
                                    Append(splitArgs, currentArg))
                 ELSE SplitArgsLoop(args, i + 1, q, <<>>, splitArgs)
            ELSE SplitArgsLoop(args, i + 1, q, Append(currentArg, char),
                               splitArgs)

SplitArgs(args) == SplitArgsLoop(args, 1, FALSE, <<>>, <<>>)

\* for _, arg := range splitArgs of UtilFindUntypedArgInArgStr
RECURSIVE LastUntypedLoop(_, _, _)
LastUntypedLoop(splitArgs, i, lastUntyped) ==
    IF i > Len(splitArgs) THEN lastUntyped
    ELSE IF ~ContainsChar(splitArgs[i], "=")
    THEN LastUntypedLoop(splitArgs, i + 1, splitArgs[i])
    ELSE IF HasSuffix(splitArgs[i], eq)
    THEN LastUntypedLoop(splitArgs, i + 1, <<>>)
    ELSE LastUntypedLoop(splitArgs, i + 1, lastUntyped)

UtilFindUntypedArgInArgStr(args) == LastUntypedLoop(SplitArgs(args), 1, <<>>)

\* for _, arg := range splitArgs of UtilFindLastArgInArgStr
RECURSIVE LastArgLoop(_, _, _)
LastArgLoop(splitArgs, i, lastArg) ==
    IF i > Len(splitArgs) THEN lastArg
    ELSE IF ContainsChar(splitArgs[i], "=")
    THEN LastArgLoop(splitArgs, i + 1, splitArgs[i])
    ELSE LastArgLoop(splitArgs, i + 1, lastArg)

UtilFindLastArgInArgStr(args) == LastArgLoop(SplitArgs(args), 1, <<>>)

\* Case #1 that offers the arguments the user does not have yet
OffersUnused(name, untypedArg, args) == name \notin DOMAIN args

\* Case #1: strings.HasPrefix(i[0], untypedArg)
Offers(name, untypedArg, args) == HasPrefix(name, untypedArg)

\* ArgBasedCompletionHandler(a, cmd, line, args).
\* c: the suggestions; out: what was printed
ArgBasedCompletionHandler(cmd, line, args) ==
    LET argsStr == RemoveFirst(TrimSpace(line), cmd.Name)
        Typed(list, untypedArg) ==
            [k \in 1..Len(list) |->
                TrimSpace(ReplaceFromBack(line, untypedArg)) \o sp \o list[k] \o eq]
        Missing(list) ==
            [k \in 1..Len(list) |-> cmd.Name \o sp \o list[k] \o eq]
        Cases(lastArg, untypedArg) ==
            IF HasSuffix(lastArg, eq) THEN [c |-> <<>>, out |-> <<>>]
            ELSE [c |-> IF untypedArg # <<>>
                        THEN Typed(SelectSeq(cmd.Args,
                                     LAMBDA n : Offers(n, untypedArg, args)),
                                   untypedArg)
                        ELSE Missing(SelectSeq(cmd.Args,
                                     LAMBDA n : n \notin DOMAIN args)),
                  out |-> Debug("Untyped arg", <<untypedArg, lastArg, argsStr>>)]
    IN Cases(UtilFindLastArgInArgStr(argsStr), UtilFindUntypedArgInArgStr(argsStr))

\* ------------------------------------------------------------------------
\* Bounds and input sets
\* ------------------------------------------------------------------------

\* how many lines a session's line source delivers before end-of-input
MaxLines == 2

\* the names and the commands the application registers
SessionNames == {ping, exit}
SessionCommands == {MkCommand(ping, <<argX>>, TRUE), MkCommand(ping, <<>>, FALSE)}

\* the lines typed in a session
SessionLines ==
    { ping,
      bad \o semi \o ping,
      ping \o semi \o exit \o semi \o ping,
      sp \o quit \o sp \o argX,
      EXIT,
      <<>>,
      ping \o sp \o argX \o eq \o <<"1">> \o sp \o <<"2">> \o semi \o semi \o bad,
      ping \o sp \o <<"(">> \o semi \o ping,
      ping \o sp \o <<"a", "=", "b", "=", "c">> }

\* what a history file loaded at the start of Run may hold
LoadedHistories == {<<>>, <<ping>>}

\* what a run handler returns
HandlerResults == {Nil, HandlerError}

\* ------------------------------------------------------------------------
\* Initial state
\* ------------------------------------------------------------------------

NoReturn == [cancel |-> FALSE, err |-> Nil]
FreeLock == [readers |-> 0, writer |-> FALSE]
NoProbe == [op |-> "none"]

ShellInit ==
    /\ Commands = EmptyMap
    /\ CaseInsensitive \in BOOLEAN
    /\ DebugCompletions \in BOOLEAN
    /\ lineAttached = FALSE
    /\ history = <<>>
    /\ stdout = <<>>
    /\ runLog = <<>>
    /\ pc = "idle"
    /\ segs = <<>>
    /\ call = [cmd |-> <<>>, runs |-> 0]
    /\ segLog = <<>>
    /\ ret = NoReturn
    /\ linesRead = 0

SignalInit ==
    /\ signalChan = <<>>
    /\ interruptHooks = <<>>
    /\ reloadHooks = <<>>
    /\ interruptHookLock = FreeLock
    /\ reloadHookLock = FreeLock
    /\ listener = [pc |-> "receive", sig |-> "none", snap |-> <<>>, ran |-> <<>>]
    /\ registrar = [pc |-> "idle", list |-> "none", fn |-> "none"]
    /\ delivered = 0
    /\ hooksRun = <<>>
    /\ exited = FALSE

Init == ShellInit /\ SignalInit /\ probe = NoProbe

\* ------------------------------------------------------------------------
\* The session: registration, ExecuteCommands and the Run loop
\* ------------------------------------------------------------------------

\* AddCommand(name, cmd), called by the application before it runs lines
AddCommand(name, cmd) ==
    /\ pc = "idle"
    /\ linesRead = 0
    /\ Commands' = MapSet(Commands, name, cmd)
    /\ UNCHANGED <<CaseInsensitive, DebugCompletions, lineAttached, history,
                   stdout, runLog, pc, segs, call, segLog, ret, linesRead>>
    /\ UNCHANGED <<probe, signalVars>>

\* ExecuteCommands, entry: strings.Split(cmd, ";")
EnterExecuteCommands(cmd) ==
    /\ segs' = StringsSplit(cmd, ";")
    /\ call' = [cmd |-> cmd, runs |-> Len(runLog)]
    /\ segLog' = <<>>
    /\ ret' = NoReturn
    /\ pc' = "exec"
    /\ linesRead' = linesRead + 1

\* the application calls ExecuteCommands itself, without Run
CallExecuteCommands(cmd) ==
    /\ pc = "idle"
    /\ linesRead < MaxLines
    /\ EnterExecuteCommands(cmd)
    /\ UNCHANGED <<Commands, CaseInsensitive, DebugCompletions, lineAttached,
                   history, stdout, runLog>>
    /\ UNCHANGED <<probe, signalVars>>

\* a loop that only an exit signal ends (best effort on errors)
StopsLoopOnCancel(r) == r.cancel

\* ExecuteCommands: err != nil || cancel ends the loop
StopsLoop(r) == r.err # Nil \/ r.cancel

\* ExecuteCommands, one iteration on a non-empty segment: RunString, then
\* return its result or go on
ExecuteCommandsRun(herr) ==
    /\ pc = "exec"
    /\ segs # <<>>
    /\ Head(segs) # <<>>
    /\ \E r \in {RunString(Head(segs), herr)} :
       /\ history' = history \o r.appended
       /\ runLog' = runLog \o r.ran
       /\ stdout' = stdout \o r.out
       /\ segLog' = Append(segLog, [command |-> Head(segs), cancel |-> r.cancel,
                                    err |-> r.err, ran |-> r.ran,
                                    history |-> history, runs |-> Len(runLog),
                                    cmds |-> Commands])
       /\ segs' = Tail(segs)
       /\ IF StopsLoop(r)
          THEN ret' = [cancel |-> r.cancel, err |-> r.err] /\ pc' = "returned"
          ELSE UNCHANGED <<ret, pc>>
    /\ UNCHANGED <<Commands, CaseInsensitive, DebugCompletions, lineAttached,
                   call, linesRead>>
    /\ UNCHANGED <<probe, signalVars>>

\* ExecuteCommands, one iteration on an empty segment: continue
ExecuteCommandsSkip ==
    /\ pc = "exec"
    /\ segs # <<>>
    /\ Head(segs) = <<>>
    /\ segs' = Tail(segs)
    /\ UNCHANGED <<Commands, CaseInsensitive, DebugCompletions, lineAttached,
                   history, stdout, runLog, pc, call, segLog, ret, linesRead>>
    /\ UNCHANGED <<probe, signalVars>>

\* ExecuteCommands, after the last segment: return false, nil
ExecuteCommandsReturn ==
    /\ pc = "exec"
    /\ segs = <<>>
    /\ ret' = NoReturn
    /\ pc' = "returned"
    /\ UNCHANGED <<Commands, CaseInsensitive, DebugCompletions, lineAttached,
                   history, stdout, runLog, segs, call, segLog, linesRead>>
    /\ UNCHANGED <<probe, signalVars>>

\* the application has its result
AppAfterExecute ==
    /\ pc = "returned"
    /\ ~lineAttached
    /\ pc' = "idle"
    /\ UNCHANGED <<Commands, CaseInsensitive, DebugCompletions, lineAttached,
                   history, stdout, runLog, segs, call, segLog, ret, linesRead>>
    /\ UNCHANGED <<probe, signalVars>>

\* Run, up to the loop: the liner is created, the interrupt hook that
\* closes it is registered, the history file is loaded if there is one
RunStart(loaded) ==
    /\ pc = "idle"
    /\ lineAttached' = TRUE
    /\ interruptHooks' = Append(interruptHooks, "lineClose")
    /\ history' = loaded
    /\ pc' = "prompt"
    /\ UNCHANGED <<Commands, CaseInsensitive, DebugCompletions, stdout, runLog,
                   segs, call, segLog, ret, linesRead>>
    /\ UNCHANGED <<probe, signalChan, reloadHooks, interruptHookLock,
                   reloadHookLock, listener, registrar, delivered, hooksRun,
                   exited>>

\* Run: Prompt returns a line, ExecuteCommands is called with it
Prompt(cmd) ==
    /\ pc = "prompt"
    /\ linesRead < MaxLines
    /\ EnterExecuteCommands(cmd)
    /\ UNCHANGED <<Commands, CaseInsensitive, DebugCompletions, lineAttached,
                   history, stdout, runLog>>
    /\ UNCHANGED <<probe, signalVars>>

\* Run: Prompt returns io.EOF (nothing printed) or another error (printed)
PromptFails(eof) ==
    /\ pc = "prompt"
    /\ stdout' = IF eof THEN stdout
                 ELSE Append(stdout, Printed("Prompt Error", <<>>))
    /\ pc' = "done"
    /\ UNCHANGED <<Commands, CaseInsensitive, DebugCompletions, lineAttached,
                   history, runLog, segs, call, segLog, ret, linesRead>>
    /\ UNCHANGED <<probe, signalVars>>

\* a read loop that an error ends as well
LoopEndsOnError(r) == r.cancel \/ r.err # Nil

\* Run: if cancel { return }
LoopEnds(r) == r.cancel

\* Run, after ExecuteCommands: print the error if any, return on cancel
RunAfterExecute ==
    /\ pc = "returned"
    /\ lineAttached
    /\ stdout' = IF ret.err # Nil
                 THEN Append(stdout, Printed("Error", ret.err.arg))
                 ELSE stdout
    /\ pc' = IF LoopEnds(ret) THEN "done" ELSE "prompt"
    /\ UNCHANGED <<Commands, CaseInsensitive, DebugCompletions, lineAttached,
                   history, runLog, segs, call, segLog, ret, linesRead>>
    /\ UNCHANGED <<probe, signalVars>>

Next ==
    \/ \E n \in SessionNames, c \in SessionCommands : AddCommand(n, c)
    \/ \E l \in SessionLines : CallExecuteCommands(l)
    \/ \E h \in HandlerResults : ExecuteCommandsRun(h)
    \/ ExecuteCommandsSkip
    \/ ExecuteCommandsReturn
    \/ AppAfterExecute
    \/ \E h \in LoadedHistories : RunStart(h)
    \/ \E l \in SessionLines : Prompt(l)
    \/ \E e \in BOOLEAN : PromptFails(e)
    \/ RunAfterExecute

Spec == Init /\ [][Next]_vars

\* ------------------------------------------------------------------------
\* Claims about the executor and the Run loop (specification Spec)
\* ------------------------------------------------------------------------

\* the last RunString call of the current ExecuteCommands call
LastCall == segLog[Len(segLog)]

\* RunString has just returned: ExecuteCommands has not returned to its
\* caller since
AfterRunString == segLog # <<>> /\ pc \in {"exec", "returned"}

\* the tokens of a RunString argument
TokensOf(command) == SplitterSplit(TrimSpace(command))

\* command has a first token
HasFirstToken(command) ==
    LET t == TokensOf(command) IN
    ~t.err /\ Len(t.parts) > 0 /\ t.parts[1] # <<>>

FirstToken(command) == TokensOf(command).parts[1]

NonEmpty(seq) == SelectSeq(seq, LAMBDA x : x # <<>>)

\* a RunString result that errors or signals exit
ErrsOrExits(e) == e.err # Nil \/ e.cancel

\* C1: ExecuteCommands gives the non-empty segments of its line to RunString
\* from left to right; once a segment errors or signals exit no later
\* segment is run (no handler of a later segment is invoked) and
\* ExecuteCommands has returned exactly that segment's (cancel, error).
C1_FailFast ==
    /\ [k \in 1..Len(segLog) |-> segLog[k].command] \o NonEmpty(segs)
         = NonEmpty(StringsSplit(call.cmd, ";"))
    /\ Len(runLog) - call.runs <= Len(segLog)
    /\ \A k \in 1..Len(segLog) :
         ErrsOrExits(segLog[k]) =>
           /\ k = Len(segLog)
           /\ pc # "exec"
           /\ ret = [cancel |-> segLog[k].cancel, err |-> segLog[k].err]
           /\ Len(runLog) = segLog[k].runs + Len(segLog[k].ran)

\* "bad; ping" with ping registered: the unknown-command error is returned
\* and ping was not run
C1_Witness ==
    /\ pc = "returned"
    /\ call.cmd = bad \o semi \o ping
    /\ ping \in DOMAIN Commands
    /\ ret.err = Errorf("unknown command", bad)
    /\ segs = <<ping>>
    /\ Len(runLog) = call.runs

\* no registered name equals tok, even ignoring letter case
Unregistered(tok) == \A n \in DOMAIN Commands : ToLower(n) # ToLower(tok)

\* the last RunString call was given a line whose first token is neither
\* an exit token nor a registered command
UnknownCall ==
    /\ AfterRunString
    /\ HasFirstToken(LastCall.command)
    /\ FirstToken(LastCall.command) \notin {exit, quit}
    /\ Unregistered(FirstToken(LastCall.command))

\* what an unknown command leaves alone in any case
UnknownCallFrame ==
    /\ LastCall.err = Errorf("unknown command", FirstToken(LastCall.command))
    /\ ~LastCall.cancel
    /\ LastCall.ran = <<>>
    /\ Len(runLog) = LastCall.runs
    /\ Commands = LastCall.cmds

\* C2 as claimed: an unknown command returns the unknown-command error, runs
\* no handler and leaves the registry and the history as they were.
C2_NoStateMutated ==
    UnknownCall => UnknownCallFrame /\ history = LastCall.history

\* C2 as amended: an unknown command returns the unknown-command error, runs
\* no handler and leaves the registry as it was; with a line source
\* attached the trimmed line is appended to the history, without one the
\* history is as it was.
C2_HistoryAppended ==
    UnknownCall =>
      /\ UnknownCallFrame
      /\ history = LastCall.history \o
                     (IF lineAttached THEN <<TrimSpace(LastCall.command)>>
                      ELSE <<>>)

C2_Witness ==
    /\ UnknownCall
    /\ lineAttached
    /\ LastCall.command = bad
    /\ history = Append(LastCall.history, bad)

\* C4: a line whose first token is exactly exit or quit makes RunString
\* return (true, nil) with no handler run and no history append, whatever
\* is registered and whatever the case flag; a first token that is not
\* exactly exit or quit (EXIT) never makes it return cancel.
C4_ExitTokens ==
    (AfterRunString /\ HasFirstToken(LastCall.command)) =>
      IF FirstToken(LastCall.command) \in {exit, quit}
      THEN /\ LastCall.cancel
           /\ LastCall.err = Nil
           /\ LastCall.ran = <<>>
           /\ Len(runLog) = LastCall.runs
           /\ history = LastCall.history
           /\ Commands = LastCall.cmds
      ELSE ~LastCall.cancel

\* exit typed with a command registered as exit, a line source attached
C4_Witness ==
    /\ AfterRunString
    /\ HasFirstToken(LastCall.command)
    /\ FirstToken(LastCall.command) = exit
    /\ exit \in DOMAIN Commands
    /\ lineAttached
    /\ LastCall.cancel

\* C10: in Run a line is read only between calls of ExecuteCommands, and
\* handlers run only inside one; after a call Run prints the error if there
\* is one and reads on unless the line signalled exit; Run ends only on an
\* exit signal or when Prompt fails; once it has ended nothing is read or
\* run.
C10_ReadLoop ==
    /\ [][linesRead' # linesRead =>
            /\ pc \in {"prompt", "idle"}
            /\ pc' = "exec"
            /\ linesRead' = linesRead + 1]_vars
    /\ [][(runLog' # runLog \/ segLog' # segLog) => pc \in {"exec", "prompt", "idle"}]_vars
    /\ [][runLog' # runLog => pc = "exec"]_vars
    /\ [][(pc = "returned" /\ lineAttached) =>
            /\ pc' = (IF ret.cancel THEN "done" ELSE "prompt")
            /\ stdout' = (IF ret.err # Nil
                          THEN Append(stdout, Printed("Error", ret.err.arg))
                          ELSE stdout)
            /\ runLog' = runLog /\ history' = history]_vars
    /\ [][(pc # "done" /\ pc' = "done") =>
            \/ pc = "returned" /\ ret.cancel
            \/ pc = "prompt" /\ linesRead' = linesRead /\ runLog' = runLog]_vars
    /\ [][pc = "done" => UNCHANGED <<pc, linesRead, runLog, history, segLog>>]_vars

\* a line that failed was reported and the loop is back at the prompt,
\* a handler having run for an earlier line
C10_Witness ==
    /\ pc = "prompt"
    /\ lineAttached
    /\ linesRead = MaxLines
    /\ ret.err # Nil
    /\ stdout # <<>>
    /\ runLog # <<>>

\* ------------------------------------------------------------------------
\* CreateArgMapFromArgs on its own (specification ArgSpec)
\* ------------------------------------------------------------------------

\* how many tokens follow the command name
MaxArgs == 2

\* the commands whose argument maps are built: no, one, two declared arguments
ArgCommands == {MkCommand(ping, <<>>, FALSE), MkCommand(ping, <<argX>>, FALSE),
                MkCommand(ping, <<argX, argY>>, FALSE)}

\* the tokens after the command name
ArgTokens ==
    { <<"x", "=", "1">>, <<"2">>, <<"y", "=", "2">>, <<"1">>,
      <<"a", "=", "b", "=", "c">>, <<"x", "=", "'", "a", " ", "b", "'">>,
      <<"(">> }

ArgLists == UNION {[1..n -> ArgTokens] : n \in 0..MaxArgs}

\* one call of CreateArgMapFromArgs: the map or the error, the warnings
\* printed
CallCreateArgMapFromArgs(cmdData, args) ==
    /\ probe = NoProbe
    /\ \E m \in {CreateArgMapFromArgs(cmdData, args)} :
         /\ probe' = [op |-> "CreateArgMapFromArgs", cmdData |-> cmdData,
                      args |-> args, out |-> m]
         /\ stdout' = stdout \o Warnings(m.warned)
    /\ UNCHANGED <<Commands, CaseInsensitive, DebugCompletions, lineAttached,
                   history, runLog, pc, segs, call, segLog, ret, linesRead>>
    /\ UNCHANGED signalVars

ArgNext == \E c \in ArgCommands, a \in ArgLists : CallCreateArgMapFromArgs(c, a)

ArgSpec == Init /\ [][ArgNext]_vars

\* the fields of a token
Fields(tok) == ArgSplitterSplit(tok)

\* every token splits into one field (bare) or two (key=value)
AllTokensSplit(args) ==
    \A i \in 1..Len(args) :
      ~Fields(args[i]).err /\ Len(Fields(args[i]).parts) \in {1, 2}

IsBare(tok) == Len(Fields(tok).parts) = 1

\* how many bare tokens there are up to token i
BareUpTo(args, i) == Cardinality({j \in 1..i : IsBare(args[j])})

\* the tokens that write key when a bare token is assigned to the declared
\* argument idx(i)
WritersOf(cmdData, args, key, idx(_)) ==
    {i \in 1..Len(args) :
       IF IsBare(args[i])
       THEN idx(i) <= Len(cmdData.Args) /\ cmdData.Args[idx(i)] = key
       ELSE Fields(args[i]).parts[1] = key}

ValueOf(tok) == Fields(tok).parts[Len(Fields(tok).parts)]

Max(S) == CHOOSE x \in S : \A y \in S : y <= x

\* the map is: for every key some token writes, the value of the last token
\* that writes it
LastWriteWins(cmdData, args, argMap, idx(_)) ==
    LET keys == {cmdData.Args[k] : k \in 1..Len(cmdData.Args)}
                  \cup {Fields(args[i]).parts[1] : i \in 1..Len(args)}
    IN
    /\ DOMAIN argMap = {key \in keys : WritersOf(cmdData, args, key, idx) # {}}
    /\ \A key \in DOMAIN argMap :
         argMap[key] = ValueOf(args[Max(WritersOf(cmdData, args, key, idx))])

\* the bare tokens at an index beyond the declared arguments, in order
ExcessBare(cmdData, args) ==
    LET excess == SelectSeq([i \in 1..Len(args) |-> i],
                            LAMBDA j : IsBare(args[j]) /\ j > Len(cmdData.Args))
    IN [k \in 1..Len(excess) |-> ValueOf(args[excess[k]])]

Called(op) == probe.op = op

\* C3 as claimed: the k-th bare token is assigned to the k-th declared
\* argument however many key=value tokens precede it, writes are applied in
\* token order and the last wins; for [x], tokens ["x=1","2"] give {x:"2"}.
C3_KthBareToKthDeclared ==
    (Called("CreateArgMapFromArgs") /\ AllTokensSplit(probe.args)) =>
      /\ probe.out.err = Nil
      /\ LastWriteWins(probe.cmdData, probe.args, probe.out.argMap,
                       LAMBDA i : BareUpTo(probe.args, i))
      /\ (probe.cmdData.Args = <<argX>>
            /\ probe.args = << <<"x", "=", "1">>, <<"2">> >>)
           => probe.out.argMap = (argX :> <<"2">>)

\* C3 as amended: a bare token at index i of the token list, key=value
\* tokens counted, is assigned to the i-th declared argument when there is
\* one and is dropped with a warning otherwise; writes are applied in token
\* order and the last wins; for [x], tokens ["x=1","2"] give {x:"1"} and the
\* warning for "2".
C3_TokenIndexToDeclared ==
    (Called("CreateArgMapFromArgs") /\ AllTokensSplit(probe.args)) =>
      /\ probe.out.err = Nil
      /\ LastWriteWins(probe.cmdData, probe.args, probe.out.argMap,
                       LAMBDA i : i)
      /\ probe.out.warned = ExcessBare(probe.cmdData, probe.args)
      /\ (probe.cmdData.Args = <<argX>>
            /\ probe.args = << <<"x", "=", "1">>, <<"2">> >>)
           => /\ probe.out.argMap = (argX :> <<"1">>)
              /\ probe.out.warned = << <<"2">> >>

\* [x] with tokens ["x=1","2"]
C3_Witness ==
    /\ Called("CreateArgMapFromArgs")
    /\ probe.cmdData.Args = <<argX>>
    /\ probe.args = << <<"x", "=", "1">>, <<"2">> >>
    /\ probe.out.err = Nil
    /\ argX \in DOMAIN probe.out.argMap

\* ------------------------------------------------------------------------
\* Lookup and completion on their own (specification QuerySpec)
\* ------------------------------------------------------------------------

\* the names and commands the application registers
QueryNames == {ping, Ping, exit}
QueryCommands == {MkCommand(ping, <<argX>>, TRUE), MkCommand(ping, <<>>, FALSE)}

\* the token lists given to ParseOutCommand
QueryTokens == {<<>>, <<ping>>, <<Ping>>, <<PING>>, <<bad>>, <<EXIT, argX>>}

\* the lines completion is asked for
QueryLines ==
    { <<>>, sp, <<"p", "i">>, <<"P", "i">>, <<"p">>, ping, Ping, ping \o sp,
      sp \o <<"p", "i">>,
      ping \o sp \o <<"x", "=", "1">>,
      ping \o sp \o <<"1">> \o sp \o <<"2">>,
      ping \o sp \o <<"a", "=", "b", "=", "c">>,
      ping \o sp \o <<"(">>,
      <<"(">>,
      ping \o semi,
      exit, <<"e", "x">>, EXIT, bad }

\* what a completer returns: suggestions, or an error (with or without
\* suggestions beside it)
CompleterResults ==
    { [list |-> <<>>, err |-> Nil],
      [list |-> <<ping>>, err |-> Nil],
      [list |-> <<Ping, ping \o sp \o argX \o eq>>, err |-> Nil],
      [list |-> <<>>, err |-> HandlerError],
      [list |-> <<ping>>, err |-> HandlerError] }

\* the orders a map with the keys S can be ranged in
Orders(S) ==
    {o \in [1..Cardinality(S) -> S] : \A i, j \in DOMAIN o : i # j => o[i] # o[j]}

\* one call of ParseOutCommand
CallParseOutCommand(tokens) ==
    /\ probe = NoProbe
    /\ probe' = [op |-> "ParseOutCommand", cmd |-> tokens,
                 out |-> ParseOutCommand(tokens)]
    /\ UNCHANGED <<shellVars, signalVars>>

\* how many completion requests the session has served
Requests == IF probe.op = "CompletionHandler" THEN probe.n ELSE 0

\* a completion request: CompletionHandler is called with line and what it
\* printed reaches stdout; at: how many lines had been executed before;
\* n: which request of the session it is
CompletionRequest(line, order, cres) ==
    /\ \E r \in {CompletionHandler(line, order, cres)} :
         /\ probe' = [op |-> "CompletionHandler", line |-> line, cres |-> cres,
                      at |-> linesRead, n |-> Requests + 1, out |-> r]
         /\ stdout' = stdout \o r.out
         /\ runLog' = runLog \o r.ran
    /\ UNCHANGED <<Commands, CaseInsensitive, DebugCompletions, lineAttached,
                   history, pc, segs, call, segLog, ret, linesRead>>
    /\ UNCHANGED signalVars

\* one call of CompletionHandler
CallCompletionHandler(line, order, cres) ==
    /\ probe = NoProbe
    /\ CompletionRequest(line, order, cres)

QueryNext ==
    \/ \E n \in QueryNames, c \in QueryCommands : probe = NoProbe /\ AddCommand(n, c)
    \/ \E t \in QueryTokens : CallParseOutCommand(t)
    \/ \E l \in QueryLines, o \in Orders(DOMAIN Commands), r \in CompleterResults :
         CallCompletionHandler(l, o, r)

QuerySpec == Init /\ [][QueryNext]_vars

\* the elements of a sequence
Range(seq) == {seq[i] : i \in DOMAIN seq}

\* the line has a character other than a space, no semicolon, and tokenizes
\* to a first token that is no exit token
CompletableLine(line) ==
    /\ Len(RemoveChar(line, " ")) > 0
    /\ ~ContainsChar(line, ";")
    /\ HasFirstToken(line)
    /\ FirstToken(line) \notin {exit, quit}

\* C5: when the first token of a non-empty, semicolon-free, tokenizable line
\* does not resolve, CompletionHandler returns exactly the registered names
\* whose lowercase form starts with the lowercased line, in debug mode and
\* in non-debug mode.
C5_PrefixFallback ==
    (/\ Called("CompletionHandler")
     /\ CompletableLine(probe.line)
     /\ ParseOutCommand(TokensOf(probe.line).parts).err # Nil) =>
      /\ Range(probe.out.c) =
           {n \in DOMAIN Commands : HasPrefix(ToLower(n), ToLower(probe.line))}
      /\ Len(probe.out.c) = Cardinality(Range(probe.out.c))

\* the line does not tokenize
TokenizingFails(line) ==
    /\ Len(RemoveChar(line, " ")) > 0
    /\ ~ContainsChar(line, ";")
    /\ TokensOf(line).err

\* the first token resolves to a command with a completer and the tokens
\* after it do not make an argument map
ArgMapFails(line) ==
    /\ CompletableLine(line)
    /\ ParseOutCommand(TokensOf(line).parts).found
    /\ Commands[ParseOutCommand(TokensOf(line).parts).key].Completer
    /\ CreateArgMapFromArgs(Commands[ParseOutCommand(TokensOf(line).parts).key],
                            Tail(TokensOf(line).parts)).err # Nil

\* the completer was called and returned an error
CompleterFails == probe.out.calls # <<>> /\ probe.cres.err # Nil

\* C6: when tokenizing fails, building the argument map fails or the
\* completer returns an error, CompletionHandler returns no suggestion
\* (what the completer returned beside its error is dropped), in debug mode
\* and in non-debug mode.
C6_ErrorsGiveNoSuggestions ==
    (/\ Called("CompletionHandler")
     /\ TokenizingFails(probe.line) \/ ArgMapFails(probe.line) \/ CompleterFails) =>
      probe.out.c = <<>>

\* debug mode, a completer that returns a suggestion beside its error
C6_Witness ==
    /\ Called("CompletionHandler")
    /\ DebugCompletions
    /\ CompleterFails
    /\ probe.cres.list # <<>>
    /\ probe.out.c = <<>>

\* C7: when the completer is called and succeeds the suggestions are the
\* completer's, each with one space appended, same number, same order;
\* when the first token resolves to a command without a completer there is
\* no suggestion and no completer call.
C7_CompleterSuggestions ==
    Called("CompletionHandler") =>
      /\ (probe.out.calls # <<>> /\ probe.cres.err = Nil) =>
           /\ Len(probe.out.c) = Len(probe.cres.list)
           /\ \A i \in 1..Len(probe.cres.list) :
                probe.out.c[i] = Append(probe.cres.list[i], " ")
      /\ (/\ HasFirstToken(probe.line)
          /\ ParseOutCommand(TokensOf(probe.line).parts).found
          /\ ~Commands[ParseOutCommand(TokensOf(probe.line).parts).key].Completer) =>
           probe.out.c = <<>> /\ probe.out.calls = <<>>

\* a completer that succeeded with two suggestions
C7_Witness ==
    /\ Called("CompletionHandler")
    /\ probe.out.calls # <<>>
    /\ probe.cres.err = Nil
    /\ Len(probe.cres.list) = 2
    /\ Len(probe.out.c) = 2

\* C8: with the case flag set ParseOutCommand resolves a typed name whenever
\* it equals a registered name ignoring letter case, without the flag only
\* on an exact match; an unresolved name gives the unknown-command error
\* naming the token as typed.
C8_CaseInsensitiveLookup ==
    (Called("ParseOutCommand") /\ probe.cmd # <<>>) =>
      /\ probe.out.found <=>
           IF CaseInsensitive
           THEN \E n \in DOMAIN Commands : ToLower(n) = ToLower(probe.cmd[1])
           ELSE probe.cmd[1] \in DOMAIN Commands
      /\ ~probe.out.found =>
           probe.out.err = Errorf("unknown command", probe.cmd[1])

\* ------------------------------------------------------------------------
\* The signal listener and the hook lists (specification SignalSpec)
\* ------------------------------------------------------------------------

\* make(chan os.Signal, 1)
SignalChanCap == 1

\* how many signals the system sends, how many hooks a list gets
MaxSignals == 2
MaxHooks == 2

\* the signals signal.Notify asks for (os.Interrupt is SIGINT)
Signals == {"SIGHUP", "SIGINT", "SIGTERM", "SIGALRM"}

\* the functions the application registers
HookFns == {"h1", "h2"}

\* s.String() == syscall.SIGHUP.String()
IsReload(sig) == sig = "SIGHUP"

HooksOf(sig) == IF IsReload(sig) THEN reloadHooks ELSE interruptHooks
LockOf(sig) == IF IsReload(sig) THEN reloadHookLock ELSE interruptHookLock

\* sync.RWMutex: RLock waits for the writer, Lock for the writer and the
\* readers
CanRLock(lock) == ~lock.writer
CanLock(lock) == ~lock.writer /\ lock.readers = 0

\* the system sends a signal: signal.Notify does not block, a signal that
\* finds the channel full is dropped
Deliver(sig) ==
    /\ ~exited
    /\ delivered < MaxSignals
    /\ delivered' = delivered + 1
    /\ signalChan' = IF Len(signalChan) < SignalChanCap
                     THEN Append(signalChan, sig)
                     ELSE signalChan
    /\ UNCHANGED <<interruptHooks, reloadHooks, interruptHookLock,
                   reloadHookLock, listener, registrar, hooksRun, exited>>
    /\ UNCHANGED <<shellVars, probe>>

\* for s := range signalChan
ListenerReceive ==
    /\ ~exited
    /\ listener.pc = "receive"
    /\ signalChan # <<>>
    /\ listener' = [pc |-> "lock", sig |-> Head(signalChan), snap |-> <<>>,
                    ran |-> <<>>]
    /\ signalChan' = Tail(signalChan)
    /\ UNCHANGED <<interruptHooks, reloadHooks, interruptHookLock,
                   reloadHookLock, registrar, delivered, hooksRun, exited>>
    /\ UNCHANGED <<shellVars, probe>>

\* RLock of the list's lock, then range over the list as it is now
ListenerRLock ==
    /\ ~exited
    /\ listener.pc = "lock"
    /\ CanRLock(LockOf(listener.sig))
    /\ IF IsReload(listener.sig)
       THEN /\ reloadHookLock' = [reloadHookLock EXCEPT !.readers = @ + 1]
            /\ UNCHANGED interruptHookLock
       ELSE /\ interruptHookLock' = [interruptHookLock EXCEPT !.readers = @ + 1]
            /\ UNCHANGED reloadHookLock
    /\ listener' = [listener EXCEPT !.pc = "hooks", !.snap = HooksOf(listener.sig)]
    /\ UNCHANGED <<signalChan, interruptHooks, reloadHooks, registrar,
                   delivered, hooksRun, exited>>
    /\ UNCHANGED <<shellVars, probe>>

\* hook()
ListenerRunHook ==
    /\ ~exited
    /\ listener.pc = "hooks"
    /\ Len(listener.ran) < Len(listener.snap)
    /\ \E hook \in {listener.snap[Len(listener.ran) + 1]} :
         /\ listener' = [listener EXCEPT !.ran = Append(@, hook)]
         /\ hooksRun' = Append(hooksRun, [sig |-> listener.sig, hook |-> hook])
    /\ UNCHANGED <<signalChan, interruptHooks, reloadHooks, interruptHookLock,
                   reloadHookLock, registrar, delivered, exited>>
    /\ UNCHANGED <<shellVars, probe>>

\* a listener that ends the process after the hooks of any signal
AfterHooksExit(sig) == "exit"

\* after RUnlock: the next signal for SIGHUP, os.Exit(0) for the others
AfterHooks(sig) == IF IsReload(sig) THEN "receive" ELSE "exit"

\* RUnlock once the range is over
ListenerRUnlock ==
    /\ ~exited
    /\ listener.pc = "hooks"
    /\ Len(listener.ran) = Len(listener.snap)
    /\ IF IsReload(listener.sig)
       THEN /\ reloadHookLock' = [reloadHookLock EXCEPT !.readers = @ - 1]
            /\ UNCHANGED interruptHookLock
       ELSE /\ interruptHookLock' = [interruptHookLock EXCEPT !.readers = @ - 1]
            /\ UNCHANGED reloadHookLock
    /\ listener' = [listener EXCEPT !.pc = AfterHooks(listener.sig)]
    /\ UNCHANGED <<signalChan, interruptHooks, reloadHooks, registrar,
                   delivered, hooksRun, exited>>
    /\ UNCHANGED <<shellVars, probe>>

\* os.Exit(0)
ListenerExit ==
    /\ ~exited
    /\ listener.pc = "exit"
    /\ exited' = TRUE
    /\ listener' = [listener EXCEPT !.pc = "exited"]
    /\ UNCHANGED <<signalChan, interruptHooks, reloadHooks, interruptHookLock,
                   reloadHookLock, registrar, delivered, hooksRun>>
    /\ UNCHANGED <<shellVars, probe>>

\* OnInterrupt(fn) / OnReload(fn): Lock
RegisterLock(list, fn) ==
    /\ ~exited
    /\ registrar.pc = "idle"
    /\ IF list = "reload"
       THEN /\ Len(reloadHooks) < MaxHooks
            /\ CanLock(reloadHookLock)
            /\ reloadHookLock' = [reloadHookLock EXCEPT !.writer = TRUE]
            /\ UNCHANGED interruptHookLock
       ELSE /\ Len(interruptHooks) < MaxHooks
            /\ CanLock(interruptHookLock)
            /\ interruptHookLock' = [interruptHookLock EXCEPT !.writer = TRUE]
            /\ UNCHANGED reloadHookLock
    /\ registrar' = [pc |-> "locked", list |-> list, fn |-> fn]
    /\ UNCHANGED <<signalChan, interruptHooks, reloadHooks, listener,
                   delivered, hooksRun, exited>>
    /\ UNCHANGED <<shellVars, probe>>

\* OnInterrupt(fn) / OnReload(fn): append, then the deferred Unlock
RegisterAppend ==
    /\ ~exited
    /\ registrar.pc = "locked"
    /\ IF registrar.list = "reload"
       THEN /\ reloadHooks' = Append(reloadHooks, registrar.fn)
            /\ reloadHookLock' = [reloadHookLock EXCEPT !.writer = FALSE]
            /\ UNCHANGED <<interruptHooks, interruptHookLock>>
       ELSE /\ interruptHooks' = Append(interruptHooks, registrar.fn)
            /\ interruptHookLock' = [interruptHookLock EXCEPT !.writer = FALSE]
            /\ UNCHANGED <<reloadHooks, reloadHookLock>>
    /\ registrar' = [pc |-> "idle", list |-> "none", fn |-> "none"]
    /\ UNCHANGED <<signalChan, listener, delivered, hooksRun, exited>>
    /\ UNCHANGED <<shellVars, probe>>

SignalNext ==
    \/ \E sig \in Signals : Deliver(sig)
    \/ ListenerReceive
    \/ ListenerRLock
    \/ ListenerRunHook
    \/ ListenerRUnlock
    \/ ListenerExit
    \/ \E l \in {"interrupt", "reload"}, fn \in HookFns : RegisterLock(l, fn)
    \/ RegisterAppend

SignalSpec == Init /\ [][SignalNext]_vars

\* the hooks the listener has called for termination signals
InterruptHooksRun ==
    LET runs == SelectSeq(hooksRun, LAMBDA r : ~IsReload(r.sig))
    IN [k \in 1..Len(runs) |-> runs[k].hook]

\* no writer inside a lock while a reader is
Exclusive(lock) == ~(lock.writer /\ lock.readers > 0)

\* C9: for a termination signal the listener calls every interrupt hook
\* registered so far once, in registration order, and the process ends only
\* after the last has returned; for SIGHUP it calls every reload hook and
\* goes back to receiving, the process not ended; OnInterrupt/OnReload never
\* change a list while the listener ranges over it.
C9_SignalHooks ==
    /\ [](Exclusive(interruptHookLock) /\ Exclusive(reloadHookLock))
    /\ [](listener.pc = "hooks" =>
            /\ HooksOf(listener.sig) = listener.snap
            /\ listener.ran = SubSeq(listener.snap, 1, Len(listener.ran)))
    /\ []((listener.pc \in {"exit", "exited"} \/ exited) => ~IsReload(listener.sig))
    /\ [](exited => /\ listener.ran = listener.snap
                    /\ InterruptHooksRun = listener.snap)
    /\ [][(listener.pc = "hooks" /\ listener'.pc # "hooks") =>
            /\ listener.ran = HooksOf(listener.sig)
            /\ exited' = FALSE
            /\ listener'.pc = (IF listener.sig = "SIGHUP" THEN "receive" ELSE "exit")]_vars
    /\ [][exited' # exited => listener.pc = "exit"]_vars

\* a reload was served with its hooks, then a termination signal ran two
\* interrupt hooks and ended the process
C9_Witness ==
    /\ exited
    /\ Len(listener.snap) = 2
    /\ InterruptHooksRun = interruptHooks
    /\ \E k \in 1..Len(hooksRun) : IsReload(hooksRun[k].sig)

\* ------------------------------------------------------------------------
\* Specification CompleterSpec: calls of the two scanners and of
\* ArgBasedCompletionHandler
\* ------------------------------------------------------------------------

\* how many space-separated pieces an argument string is built from
MaxPieces == 2

abcdef == <<"a", "b", "c", "=", "d", "e", "f">>
ghi == <<"g", "h", "i">>
xy == <<"x", "y">>

\* the pieces of the argument strings given to the scanners: bare tokens,
\* key=value tokens, a key with its '=', values quoted with either quote,
\* holding a space, an '=' or the other quote character
ScanPieces ==
    { ghi, abcdef, ghi \o eq,
      <<"x", "=", "'", "a", " ", "b", "'">>,
      <<"x", "=", "\"", "a", "=", "b", "\"">>,
      <<"x", "=", "'", "a", "\"", " ", "b", "'">>,
      <<"'", "g", " ", "h", "'">> }

\* pieces joined by single spaces
RECURSIVE Join(_)
Join(pieces) ==
    IF pieces = <<>> THEN <<>>
    ELSE IF Len(pieces) = 1 THEN pieces[1]
    ELSE pieces[1] \o sp \o Join(Tail(pieces))

ScanStrings == {Join(ps) : ps \in UNION {[1..n -> ScanPieces] : n \in 0..MaxPieces}}

\* the commands ArgBasedCompletionHandler completes for, and what follows
\* the command name on the line
CompleterCommands ==
    { MkCommand(ping, <<argX, argY>>, TRUE), MkCommand(ping, <<argX, xy>>, TRUE),
      MkCommand(ping, <<>>, TRUE) }

CompleterPieces ==
    { argX, argY, <<"x", "=", "1">>, argY \o eq, <<"y", "=", "x">>,
      <<"y", "=", "'", "a", " ", "b", "'">> }

CompleterLines ==
    {ping \o sp \o Join(ps) : ps \in UNION {[1..n -> CompleterPieces] : n \in 0..MaxPieces}}

\* one call of UtilFindUntypedArgInArgStr
CallUtilFindUntypedArgInArgStr(args) ==
    /\ probe = NoProbe
    /\ probe' = [op |-> "UtilFindUntypedArgInArgStr", args |-> args,
                 out |-> UtilFindUntypedArgInArgStr(args)]
    /\ UNCHANGED <<shellVars, signalVars>>

\* one call of UtilFindLastArgInArgStr
CallUtilFindLastArgInArgStr(args) ==
    /\ probe = NoProbe
    /\ probe' = [op |-> "UtilFindLastArgInArgStr", args |-> args,
                 out |-> UtilFindLastArgInArgStr(args)]
    /\ UNCHANGED <<shellVars, signalVars>>

\* one call of ArgBasedCompletionHandler as a command's Completer: args is
\* the map CompletionHandler builds from the tokens after the name
CallArgBasedCompletionHandler(cmd, line) ==
    /\ probe = NoProbe
    /\ ~TokensOf(line).err
    /\ \E m \in {CreateArgMapFromArgs(cmd, Tail(TokensOf(line).parts))} :
         /\ m.err = Nil
         /\ \E r \in {ArgBasedCompletionHandler(cmd, line, m.argMap)} :
              /\ probe' = [op |-> "ArgBasedCompletionHandler", cmd |-> cmd,
                           line |-> line, args |-> m.argMap, out |-> r]
              /\ stdout' = stdout \o r.out
    /\ UNCHANGED <<Commands, CaseInsensitive, DebugCompletions, lineAttached,
                   history, runLog, pc, segs, call, segLog, ret, linesRead>>
    /\ UNCHANGED signalVars

CompleterNext ==
    \/ \E a \in ScanStrings : CallUtilFindUntypedArgInArgStr(a)
    \/ \E a \in ScanStrings : CallUtilFindLastArgInArgStr(a)
    \/ \E c \in CompleterCommands, l \in CompleterLines :
         CallArgBasedCompletionHandler(c, l)

CompleterSpec == Init /\ [][CompleterNext]_vars

\* The tokens of an argument string when a quoted span is atomic: a span
\* opened by a quote character ends at the next occurrence of that same
\* character, and only a space outside every span separates tokens.
\* open is "" outside a span, else the quote character that opened it.
RECURSIVE AtomicSplit(_, _, _, _, _)
AtomicSplit(args, i, open, cur, acc) ==
    IF i > Len(args)
    THEN IF Len(cur) > 0 THEN Append(acc, cur) ELSE acc
    ELSE LET char == args[i]
             o == IF open = "" /\ char \in {"'", "\""} THEN char
                  ELSE IF open = char THEN ""
                  ELSE open
         IN IF char = " " /\ open = ""
            THEN AtomicSplit(args, i + 1, o, <<>>,
                             IF Len(cur) > 0 THEN Append(acc, cur) ELSE acc)
            ELSE AtomicSplit(args, i + 1, o, Append(cur, char), acc)

\* tok has an '=' outside its quoted spans
RECURSIVE HasUnquotedEq(_, _, _)
HasUnquotedEq(tok, i, open) ==
    IF i > Len(tok) THEN FALSE
    ELSE IF open = "" /\ tok[i] = "=" THEN TRUE
    ELSE HasUnquotedEq(tok, i + 1,
                       IF open = "" /\ tok[i] \in {"'", "\""} THEN tok[i]
                       ELSE IF open = tok[i] THEN ""
                       ELSE open)

\* the whole bare tokens of an argument string
BareTokens(args) ==
    {t \in Range(AtomicSplit(args, 1, "", <<>>, <<>>)) : ~HasUnquotedEq(t, 1, "")}

\* C12: UtilFindUntypedArgInArgStr treats every quoted span, whatever it
\* contains (the other quote character included), as atomic: its result is
\* a whole bare token of the input or the empty string; "abc=def ghi" gives
\* "ghi", "abc=def ghi=" gives "", and a string whose only '='-free text
\* lies inside a quoted value gives "".
C12_QuotedSpansAtomic ==
    Called("UtilFindUntypedArgInArgStr") =>
        /\ probe.out = <<>> \/ probe.out \in BareTokens(probe.args)
        /\ probe.args = abcdef \o sp \o ghi => probe.out = ghi
        /\ probe.args = abcdef \o sp \o ghi \o eq => probe.out = <<>>
        /\ BareTokens(probe.args) = {} => probe.out = <<>>

\* what ArgBasedCompletionHandler scans: the line without the command name
ArgsStrOf(cmd, line) == RemoveFirst(TrimSpace(line), cmd.Name)

\* the call has an untyped token in progress and the last key=value token
\* does not end in '='
UntypedInProgress ==
    /\ Called("ArgBasedCompletionHandler")
    /\ UtilFindUntypedArgInArgStr(ArgsStrOf(probe.cmd, probe.line)) # <<>>
    /\ ~HasSuffix(UtilFindLastArgInArgStr(ArgsStrOf(probe.cmd, probe.line)), eq)

\* the last key=value token of the call's line ends in '='
MidValue ==
    /\ Called("ArgBasedCompletionHandler")
    /\ HasSuffix(UtilFindLastArgInArgStr(ArgsStrOf(probe.cmd, probe.line)), eq)

\* name has a key=value token on the line
GivenOnLine(line, name) ==
    \E i \in 2..Len(TokensOf(line).parts) :
        /\ Len(Fields(TokensOf(line).parts[i]).parts) = 2
        /\ Fields(TokensOf(line).parts[i]).parts[1] = name

\* names, each as the typed part of the line followed by "<name>="
AfterTypedPrefix(line, untypedArg, names) ==
    [k \in 1..Len(names) |->
        TrimSpace(ReplaceFromBack(line, untypedArg)) \o sp \o names[k] \o eq]

\* C11 as claimed: with an untyped token in progress and the caret not
\* mid-value, the suggestions are exactly the declared-but-unused argument
\* names (unused: without a key=value token on the line, or else absent from
\* the argument map), each as the typed prefix followed by "<name>="; when
\* the last key=value token ends in '=' nothing is suggested.
C11_DeclaredButUnused ==
    /\ MidValue => probe.out.c = <<>>
    /\ UntypedInProgress =>
         LET untypedArg == UtilFindUntypedArgInArgStr(ArgsStrOf(probe.cmd, probe.line))
         IN \/ probe.out.c =
                 AfterTypedPrefix(probe.line, untypedArg,
                     SelectSeq(probe.cmd.Args,
                               LAMBDA n : ~GivenOnLine(probe.line, n)))
            \/ probe.out.c =
                 AfterTypedPrefix(probe.line, untypedArg,
                     SelectSeq(probe.cmd.Args,
                               LAMBDA n : n \notin DOMAIN probe.args))

\* C11 as amended: with an untyped token in progress and the caret not
\* mid-value, the suggestions are, in declaration order, the declared
\* argument names that start with the untyped token, whether or not the line
\* already gives them a value, each as the line without the last occurrence
\* of the untyped token, trimmed, then a space and "<name>="; when the last
\* key=value token ends in '=' nothing is suggested.
C11_NamesStartingWithUntyped ==
    /\ MidValue => probe.out.c = <<>>
    /\ UntypedInProgress =>
         LET untypedArg == UtilFindUntypedArgInArgStr(ArgsStrOf(probe.cmd, probe.line))
             starts == {k \in 1..Len(probe.cmd.Args) :
                          /\ Len(untypedArg) <= Len(probe.cmd.Args[k])
                          /\ \A j \in 1..Len(untypedArg) :
                               probe.cmd.Args[k][j] = untypedArg[j]}
         IN /\ Len(probe.out.c) = Cardinality(starts)
            /\ \A k \in starts :
                 LET pos == Cardinality({j \in starts : j <= k})
                 IN probe.out.c[pos] =
                      TrimSpace(ReplaceFromBack(probe.line, untypedArg))
                        \o sp \o probe.cmd.Args[k] \o eq

\* a call that suggests a name the line already gives a value and leaves out
\* a declared name the line does not have
C11_Witness ==
    /\ UntypedInProgress
    /\ \E k \in 1..Len(probe.cmd.Args) :
         /\ GivenOnLine(probe.line, probe.cmd.Args[k])
         /\ probe.cmd.Args[k] \in DOMAIN probe.args
         /\ Len(probe.out.c) = 1
         /\ HasSuffix(probe.out.c[1], sp \o probe.cmd.Args[k] \o eq)
    /\ \E k \in 1..Len(probe.cmd.Args) :
         /\ ~GivenOnLine(probe.line, probe.cmd.Args[k])
         /\ probe.cmd.Args[k] \notin DOMAIN probe.args

\* ------------------------------------------------------------------------
\* Specification InterleavedSpec: a session whose lines are executed while
\* completion is requested in between (by the application before Run, by
\* the liner during Prompt)
\* ------------------------------------------------------------------------

\* how many completion requests a session serves
MaxRequests == 1

\* the lines executed and the lines completion is requested for
InterleavedLines ==
    { ping \o sp \o <<"x", "=", "1">> \o semi \o semi \o bad,
      ping }

RequestLines ==
    { <<"p", "i">>, ping \o sp \o <<"x", "=", "1">>, ping \o sp \o <<"(">> }

RequestResults ==
    { [list |-> <<ping \o sp \o argX \o eq>>, err |-> Nil],
      [list |-> <<>>, err |-> HandlerError] }

\* a request arrives while no line is being executed
RequestCompletion(line, order, cres) ==
    /\ pc \in {"idle", "prompt"}
    /\ Requests < MaxRequests
    /\ CompletionRequest(line, order, cres)

InterleavedNext ==
    \/ \E c \in SessionCommands : AddCommand(ping, c)
    \/ \E h \in HandlerResults : ExecuteCommandsRun(h)
    \/ ExecuteCommandsSkip
    \/ ExecuteCommandsReturn
    \/ \E h \in LoadedHistories : RunStart(h)
    \/ \E l \in InterleavedLines : Prompt(l)
    \/ \E e \in BOOLEAN : PromptFails(e)
    \/ RunAfterExecute
    \/ \E l \in RequestLines, o \in Orders(DOMAIN Commands), r \in RequestResults :
         RequestCompletion(l, o, r)

InterleavedSpec == Init /\ [][InterleavedNext]_vars

\* the command the first token of line resolves to has a completer
ResolvesToCompleter(line, key) ==
    /\ HasFirstToken(line)
    /\ ParseOutCommand(TokensOf(line).parts).err = Nil
    /\ ParseOutCommand(TokensOf(line).parts).found
    /\ ParseOutCommand(TokensOf(line).parts).key = key
    /\ Commands[key].Completer

\* C13: a completion request invokes no run handler, changes no registry
\* entry and appends nothing to the history, and leaves the record of the
\* executed lines (their results, the position of the session) as it was;
\* the only application code it calls is the completer of the command its
\* first token resolves to, at most once.
C13_CompletionSideEffectFree ==
    [][probe' # probe =>
         /\ UNCHANGED <<Commands, history, runLog>>
         /\ UNCHANGED <<CaseInsensitive, lineAttached, pc, segs, call, segLog,
                        ret, linesRead>>
         /\ probe'.out.ran = <<>>
         /\ Len(probe'.out.calls) <= 1
         /\ \A k \in 1..Len(probe'.out.calls) :
              /\ ResolvesToCompleter(probe'.line, probe'.out.calls[k].cmd)
              /\ probe'.out.calls[k].line = probe'.line]_vars

\* between two executed lines that each ran a handler and entered the
\* history, a request called a completer
C13_Witness ==
    /\ Called("CompletionHandler")
    /\ Len(probe.out.calls) = 1
    /\ probe.at = 1
    /\ linesRead = 2
    /\ pc = "prompt"
    /\ Len(runLog) = 2
    /\ Len(history) >= 2

====
